---- MODULE Spec2Model ----
(***************************************************************************)
(* State-machine model of agent-swap: the Historical Memory Store          *)
(* (src/agent/memory.rs) and the Quote Aggregator with its two DEX          *)
(* adapters (src/swap/mod.rs, src/swap/raydium.rs, src/swap/orca.rs).       *)
(*                                                                         *)
(* Conventions                                                             *)
(*  - A Pubkey is a short string, a DexType is "Raydium" or "Orca".        *)
(*  - An f64 that the code obtains as the quotient of two integers is the  *)
(*    exact fraction <<num, den>> in lowest terms (den > 0).  On the small *)
(*    integers of this model two such quotients are equal, or ordered, as  *)
(*    f64 values exactly when the fractions are.                           *)
(*  - The wall clock is the variable now: -1 stands for a system time      *)
(*    before UNIX_EPOCH (duration_since fails), any other value is the     *)
(*    number of seconds since the epoch.  The clock is not monotonic.      *)
(*  - Every operation of the store leaves what it returned in result, and  *)
(*    every operation on the engine in engine_result; a get_best_quote     *)
(*    that missed the cache also leaves there the venues whose query had   *)
(*    settled when it returned.                                            *)
(*  - get_best_quote is an async fn: it advances from one await to the     *)
(*    next, one action each, and its future may be dropped in between.     *)
(*    The engine is borrowed mutably for the whole call.                   *)
(*  - No code under src/ writes a venue's liquidity state: the pools an    *)
(*    engine holds are an input, fixed at Init.  The specification names   *)
(*    an external refresh collaborator that replaces them out of band;     *)
(*    that step (Refresh) is modelled from the specification and is a step *)
(*    of SpecRefresh only.                                                 *)
(*  - Integer arithmetic on TLA+ integers is exact.  Amounts and reserves  *)
(*    given as integers are below 2^31, where no product of the adapters   *)
(*    reaches the width of u64; values of the whole u64 range are written  *)
(*    in 16-bit limbs and their arithmetic wraps or panics as the build    *)
(*    has it.                                                              *)
(***************************************************************************)
EXTENDS Integers, Sequences, FiniteSets, TLC

VARIABLES
    records,        \* Memory.records: Vec<SwapRecord>, oldest first
    metrics,        \* Memory.metrics: HashMap<(Pubkey, Pubkey, DexType), RouteMetrics>
    max_records,    \* Memory.max_records
    memory_state,   \* "live", or "panicked" once an operation of the store has panicked
    now,            \* the wall clock read by SystemTime::now()
    result,         \* what the last operation returned
    inserted,       \* history: the record of every add_swap call that returned Ok, in call order
    observed,       \* history: per route key, counts of the add_swap calls made so far
    raydium_pools,  \* SwapEngine.raydium.pools: HashMap<(Pubkey, Pubkey), PoolState>
    orca_whirlpools,\* SwapEngine.orca.whirlpools: HashMap<(Pubkey, Pubkey), WhirlpoolState>
    quote_cache,    \* SwapEngine.quote_cache: HashMap<(Pubkey, Pubkey, u64), Quote>
    call,           \* the get_best_quote call in flight: where it is suspended, and its locals
    engine_result,  \* what the last operation on the engine returned
    unique,         \* the process-wide counter behind Pubkey::new_unique()
    first_quotes,   \* history: per cache key, the first quote get_best_quote returned for it
    stats,          \* Metrics.stats: SwapStats (src/src/lib.rs)
    recorded        \* history: the record_success and record_failure calls made, in call order

memory_vars == <<records, metrics, max_records, memory_state, now, result, inserted, observed>>

stats_vars == <<stats, recorded>>

engine_vars == <<raydium_pools, orca_whirlpools, quote_cache, call, engine_result, unique,
                 first_quotes>>

vars == <<records, metrics, max_records, memory_state, now, result, inserted, observed,
          raydium_pools, orca_whirlpools, quote_cache, call, engine_result, unique,
          first_quotes, stats, recorded>>

-----------------------------------------------------------------------------
(* Bounds of the model *)

\* add_swap calls that return Ok in one behaviour of SpecMemory
MaxCalls == 3
\* largest capacity a store is constructed with
MaxCapacity == 2
\* largest wall-clock reading, in seconds since the epoch
MaxTime == 1
\* add_swap calls made in one behaviour of SpecMetrics
MaxObservations == 5
\* largest value of the counter behind Pubkey::new_unique() an engine of SpecTwin starts from
MaxUnique == 6
\* record_success and record_failure calls made in one behaviour of SpecStats
MaxRecorded == 5

-----------------------------------------------------------------------------
(* Values *)

USDC == "USDC"
SOL == "SOL"

\* src/swap/mod.rs:21-27
DexType == {"Raydium", "Orca"}

\* the route keys swaps are recorded for: a pair, the reversed pair, the pair on the other venue
RouteKeys == {<<USDC, SOL, "Raydium">>, <<SOL, USDC, "Raydium">>, <<USDC, SOL, "Orca">>}

\* the route keys the queries are asked about; <<SOL, USDC, "Orca">> is never recorded
QueryKeys == RouteKeys \cup {<<SOL, USDC, "Orca">>}

\* the windows get_recent_swaps is called with, in seconds
Windows == {0, 1}

RECURSIVE Gcd(_, _)
Gcd(a, b) == IF b = 0 THEN a ELSE Gcd(b, a % b)

\* the f64 quotient  n as f64 / d as f64  of two integers, d > 0, n >= 0
Ratio(n, d) == LET g == Gcd(n, d) IN <<n \div g, d \div g>>

Zero == <<0, 1>>

\* a <= b on fractions
Leq(a, b) == a[1] * b[2] <= b[1] * a[2]

\* f64::max, f64::min
FMax(a, b) == IF Leq(a, b) THEN b ELSE a
FMin(a, b) == IF Leq(a, b) THEN a ELSE b

\* a * k + v for a fraction a and integers k, v
MulAdd(a, k, v) == Ratio(a[1] * k + v * a[2], a[2])

\* a / k for a fraction a and an integer k > 0
DivInt(a, k) == Ratio(a[1], a[2] * k)

\* src/agent/memory.rs:43-57, #[derive(Default)]
DefaultRouteMetrics ==
    [total_swaps |-> 0, successful_swaps |-> 0, avg_price_impact |-> Zero,
     best_rate |-> Zero, worst_rate |-> Zero, last_update |-> 0]

\* a SwapRoute as add_swap reads it (src/src/lib.rs:76-93)
SwapRoute(key, amount_in, amount_out, price_impact_bps) ==
    [token_in |-> key[1], token_out |-> key[2], dex_type |-> key[3],
     amount_in |-> amount_in, amount_out |-> amount_out,
     price_impact_bps |-> price_impact_bps]

\* create_test_route's amounts and price impact on a route key
TestRoute(key) == SwapRoute(key, 1000000, 900000, 100)

\* the add_swap calls of SpecMemory, as <<route, success>>: successful and failed swaps on a
\* pair and successful swaps on the reversed pair
LogSwaps ==
    {<<TestRoute(<<USDC, SOL, "Raydium">>), TRUE>>,
     <<TestRoute(<<USDC, SOL, "Raydium">>), FALSE>>,
     <<TestRoute(<<SOL, USDC, "Raydium">>), TRUE>>}

\* the routes recorded in SpecMetrics: on one key the rates 0, 1/2, 1 and 2 with price
\* impacts 0 and 100 (as <<amount_in, amount_out, price_impact_bps>>), on the other keys
\* create_test_route's amounts
MetricRoutes ==
    {SwapRoute(<<USDC, SOL, "Raydium">>, a[1], a[2], a[3]) :
        a \in {<<1, 0, 0>>, <<2, 1, 100>>, <<1, 1, 0>>, <<1, 2, 100>>}}
    \cup {TestRoute(k) : k \in RouteKeys \ {<<USDC, SOL, "Raydium">>}}

KeyOf(r) == <<r.token_in, r.token_out, r.dex_type>>

-----------------------------------------------------------------------------
(* Memory: src/agent/memory.rs *)

\* Memory::new(max_records); Memory::default() is Memory::new(0)
MemoryNew(capacity) ==
    /\ records = <<>>
    /\ metrics = <<>>
    /\ max_records = capacity
    /\ memory_state = "live"

entry_always_default(m, key) == DefaultRouteMetrics

\* self.metrics.entry(key).or_default()
EntryOrDefault(m, key) == IF key \in DOMAIN m THEN m[key] ELSE DefaultRouteMetrics

insert_alone(m, key, value) == key :> value

\* the map m with key bound to value
Insert(m, key, value) == (key :> value) @@ m

total_swaps_assigned(old) == 1

\* update_metrics, total_swaps: metrics.total_swaps += 1
next_total_swaps(old) == old.total_swaps + 1

successful_swaps_always(old, success) == old.successful_swaps + 1

\* update_metrics, successful_swaps: if record.success { metrics.successful_swaps += 1 }
next_successful_swaps(old, success) ==
    IF success THEN old.successful_swaps + 1 ELSE old.successful_swaps

best_rate_min(old, rate) == FMin(old.best_rate, rate)

best_rate_latest(old, rate) == rate

\* update_metrics, best_rate: metrics.best_rate.max(rate)
next_best_rate(old, rate) == FMax(old.best_rate, rate)

\* update_metrics, worst_rate: rate if worst_rate == 0.0, else metrics.worst_rate.min(rate)
next_worst_rate(old, rate) ==
    IF old.worst_rate = Zero THEN rate ELSE FMin(old.worst_rate, rate)

avg_price_impact_halfway(old, total, price_impact_bps) ==
    DivInt(MulAdd(old.avg_price_impact, 1, price_impact_bps), 2)

\* update_metrics, avg_price_impact, with total the incremented total_swaps:
\* (avg * (total - 1) as f64 + price_impact_bps as f64) / total as f64
next_avg_price_impact(old, total, price_impact_bps) ==
    DivInt(MulAdd(old.avg_price_impact, total - 1, price_impact_bps), total)

update_metrics_on_every_venue(m, record) ==
    LET old == EntryOrDefault(m, <<record.token_in, record.token_out, record.dex_type>>)
        total == next_total_swaps(old)
        rate == Ratio(record.amount_out, record.amount_in)
        entry == [total_swaps |-> total,
                  successful_swaps |-> next_successful_swaps(old, record.success),
                  avg_price_impact |->
                      next_avg_price_impact(old, total, record.price_impact_bps),
                  best_rate |-> next_best_rate(old, rate),
                  worst_rate |-> next_worst_rate(old, rate),
                  last_update |-> record.timestamp]
    IN  [key \in {<<record.token_in, record.token_out, venue>> : venue \in DexType}
             |-> entry] @@ m

\* Memory::update_metrics: the metrics map after the record is observed
update_metrics(m, record) ==
    LET key == <<record.token_in, record.token_out, record.dex_type>>
        old == EntryOrDefault(m, key)
        total == next_total_swaps(old)
        rate == Ratio(record.amount_out, record.amount_in)
    IN  Insert(m, key,
            [total_swaps |-> total,
             successful_swaps |-> next_successful_swaps(old, record.success),
             avg_price_impact |-> next_avg_price_impact(old, total, record.price_impact_bps),
             best_rate |-> next_best_rate(old, rate),
             worst_rate |-> next_worst_rate(old, rate),
             last_update |-> record.timestamp])

\* the SwapRecord add_swap builds
SwapRecord(route, success, timestamp) ==
    [timestamp |-> timestamp, token_in |-> route.token_in, token_out |-> route.token_out,
     amount_in |-> route.amount_in, amount_out |-> route.amount_out,
     dex_type |-> route.dex_type, success |-> success,
     price_impact_bps |-> route.price_impact_bps]

push_unbounded(log, capacity, record) ==
    IF Len(log) > capacity THEN Append(Tail(log), record) ELSE Append(log, record)

\* add_swap, "Add record and maintain size limit", on a log that is not empty when full
push_bounded(log, capacity, record) ==
    IF Len(log) >= capacity THEN Append(Tail(log), record) ELSE Append(log, record)

\* Memory::add_swap(route, success)
AddSwap(route, success) ==
    /\ memory_state = "live"
    /\ IF now < 0
       THEN \* duration_since(UNIX_EPOCH) fails: the error is returned by `?`
            /\ result' = [op |-> "add_swap", outcome |-> "Err"]
            /\ UNCHANGED <<records, metrics, max_records, memory_state>>
       ELSE LET record == SwapRecord(route, success, now) IN
            /\ metrics' = update_metrics(metrics, record)
            /\ IF Len(records) >= max_records /\ records = <<>>
               THEN \* Vec::remove(0) on an empty vector panics
                    /\ memory_state' = "panicked"
                    /\ result' = [op |-> "add_swap", outcome |-> "panic"]
                    /\ UNCHANGED <<records, max_records>>
               ELSE /\ records' = push_bounded(records, max_records, record)
                    /\ result' = [op |-> "add_swap", outcome |-> "Ok"]
                    /\ UNCHANGED <<max_records, memory_state>>
    /\ UNCHANGED now

\* Memory::get_relevant_swaps: the value returned
get_relevant_swaps(m, key) == IF key \in DOMAIN m THEN m[key] ELSE DefaultRouteMetrics

get_relevant_swaps_inserting(m, key) ==
    IF key \in DOMAIN m THEN m ELSE Insert(m, key, DefaultRouteMetrics)

\* Memory::get_relevant_swaps: the metrics map it leaves (a lookup, no insertion)
get_relevant_swaps_map(m, key) == m

\* Memory::get_relevant_swaps(token_in, token_out, dex_type)
GetRelevantSwaps(key) ==
    /\ memory_state = "live"
    /\ result' = [op |-> "get_relevant_swaps", key |-> key,
                  value |-> get_relevant_swaps(metrics, key)]
    /\ metrics' = get_relevant_swaps_map(metrics, key)
    /\ UNCHANGED <<records, max_records, memory_state, now, inserted, observed>>

get_success_rate_default_one(m, key) ==
    LET found == get_relevant_swaps(m, key) IN
    IF found.total_swaps = 0 THEN <<1, 1>>
    ELSE Ratio(found.successful_swaps, found.total_swaps)

\* Memory::get_success_rate: the value returned
get_success_rate(m, key) ==
    LET found == get_relevant_swaps(m, key) IN
    IF found.total_swaps = 0 THEN Zero
    ELSE Ratio(found.successful_swaps, found.total_swaps)

\* Memory::get_success_rate(token_in, token_out, dex_type)
GetSuccessRate(key) ==
    /\ memory_state = "live"
    /\ result' = [op |-> "get_success_rate", key |-> key,
                  value |-> get_success_rate(metrics, key)]
    /\ metrics' = get_relevant_swaps_map(metrics, key)
    /\ UNCHANGED <<records, max_records, memory_state, now, inserted, observed>>

\* the clock reading of get_recent_swaps: duration_since(..).unwrap_or_default().as_secs()
ClockOrDefault(clock) == IF clock < 0 THEN 0 ELSE clock

\* the records r of log with  reading - r.timestamp <= seconds, in the order of log
RECURSIVE FilterRecent(_, _, _)
FilterRecent(log, reading, seconds) ==
    IF log = <<>> THEN <<>>
    ELSE LET r == Head(log)
             rest == FilterRecent(Tail(log), reading, seconds)
         IN  \* reading < r.timestamp is reached only with wrapping u64 arithmetic: the
             \* difference is 2^64 - (r.timestamp - reading), above every window of the model
             IF reading >= r.timestamp /\ reading - r.timestamp <= seconds
             THEN <<r>> \o rest ELSE rest

\* whether  now - r.timestamp  overflows u64 for a record of the log
Underflows(log, reading) == \E i \in 1..Len(log) : log[i].timestamp > reading

\* Memory::get_recent_swaps(seconds); overflow_checks tells the build: a debug build panics
\* on an overflowing subtraction, a release build wraps
GetRecentSwaps(seconds, overflow_checks) ==
    /\ memory_state = "live"
    /\ LET reading == ClockOrDefault(now) IN
       IF Underflows(records, reading) /\ overflow_checks
       THEN /\ memory_state' = "panicked"
            /\ result' = [op |-> "get_recent_swaps", panic |-> TRUE]
       ELSE /\ result' = [op |-> "get_recent_swaps", seconds |-> seconds,
                          reading |-> reading, panic |-> FALSE,
                          value |-> FilterRecent(records, reading, seconds)]
            /\ UNCHANGED memory_state
    /\ UNCHANGED <<records, metrics, max_records, now, inserted, observed>>

\* the environment: the wall clock is set to another reading
ClockSet(t) ==
    /\ t # now
    /\ now' = t
    /\ UNCHANGED <<records, metrics, max_records, memory_state, result, inserted, observed>>

-----------------------------------------------------------------------------
(* DEX adapters: src/swap/raydium.rs, src/swap/orca.rs *)

\* the number of binary digits of n
RECURSIVE BitLength(_)
BitLength(n) == IF n = 0 THEN 0 ELSE 1 + BitLength(n \div 2)

RECURSIVE PowerOfTwo(_)
PowerOfTwo(d) == IF d = 0 THEN 1 ELSE 2 * PowerOfTwo(d - 1)

\* <<quotient, remainder>> of a * b by d, for d > 0, the integer arithmetic of the code's
\* u64 and u128 on amounts far below the width of either type. The product is never
\* formed: with large = whole * d + rest, the quotient is whole * small + (rest * small) / d,
\* and times(acc, i) takes acc, the <<quotient, remainder>> of rest * (small \div 2^i) by d,
\* through the remaining i binary digits of small, doubling and adding rest
MulDivMod(a, b, d) ==
    LET small == IF a < b THEN a ELSE b
        large == IF a < b THEN b ELSE a
        whole == large \div d
        rest == large % d
        RECURSIVE times(_, _)
        times(acc, i) ==
            IF i = 0 THEN acc
            ELSE LET doubled == IF acc[2] >= d - acc[2]
                                THEN <<2 * acc[1] + 1, acc[2] - (d - acc[2])>>
                                ELSE <<2 * acc[1], 2 * acc[2]>>
                     add == IF (small \div 2^(i - 1)) % 2 = 1 THEN rest ELSE 0
                 IN  IF doubled[2] >= d - add
                     THEN times(<<doubled[1] + 1, doubled[2] - (d - add)>>, i - 1)
                     ELSE times(<<doubled[1], doubled[2] + add>>, i - 1)
        product == times(<<0, 0>>, BitLength(small))
    IN  <<whole * small + product[1], product[2]>>

\* a * b / d
MulDiv(a, b, d) == MulDivMod(a, b, d)[1]

\* 2^exponent % modulus, by squaring, for a modulus of at most 10000
RECURSIVE PowMod2(_, _)
PowMod2(exponent, modulus) ==
    IF exponent = 0 THEN 1 % modulus
    ELSE LET root == PowMod2(exponent \div 2, modulus)
         IN  (root * root * (IF exponent % 2 = 1 THEN 2 ELSE 1)) % modulus

\* the binary exponent of the f64 quotient a / b: the floor of its base-2 logarithm
f64_exponent(a, b) ==
    IF a >= b THEN BitLength(a \div b) - 1 ELSE 0 - BitLength((b - 1) \div a)

\* (a as f64 / b as f64) * 10000.0 where the exact value is the integer n, 0 < n < 65535:
\* whether the f64 product is below n. In lowest terms a / b is num / den with den a
\* divisor of 10000. The f64 quotient keeps 53 binary digits; `lost` is what rounding to
\* nearest removed from it, in units of its last digit times den, and the product rounds
\* below n when 10000 times the loss exceeds half the spacing of the f64 values below n
f64_product_below(a, b, n) ==
    LET num == a \div Gcd(a, b)
        den == b \div Gcd(a, b)
        exponent == f64_exponent(num, den)
        lost == ((num % den) * PowMod2(52 - exponent, den)) % den
        top == BitLength(n) - 1
        below == IF n = 2^top THEN top - 1 ELSE top
        spacing == 2^(below - exponent - 5)
    IN  /\ lost # 0
        /\ 2 * lost < den
        /\ 625 * lost > den * spacing

\* ((amount as f64 / base as f64) * 10000.0) as u16: the cast truncates, saturates at 65535
\* and maps NaN, the quotient 0.0 / 0.0, to 0. The f64 value is in the same unit interval as
\* the exact value 10000 * amount / base unless that is an integer, for base below 2^31
price_impact(amount, base) ==
    IF base = 0 THEN (IF amount = 0 THEN 0 ELSE 65535)
    ELSE LET bps == MulDivMod(amount, 10000, base) IN
         IF amount \div base >= 7 \/ bps[1] >= 65535 THEN 65535
         ELSE IF bps[2] # 0 \/ bps[1] = 0 THEN bps[1]
         ELSE IF f64_product_below(amount, base, bps[1]) THEN bps[1] - 1
         ELSE bps[1]

\* get_quote, "minimum output with 1% slippage": amount_out * 99 / 100, for amount_out
\* below 2^31, where the product is within u64
minimum_out(amount_out) == MulDiv(amount_out, 99, 100)

\* a failed adapter call: anyhow!(message)
Failed(message) == [ok |-> FALSE, panic |-> FALSE, error |-> message]

\* an adapter call that panicked
Panicked == [ok |-> FALSE, panic |-> TRUE]

\* A u64 is written as its four 16-bit limbs, least significant first.
\* limbs * factor + carry, for factor and carry below 2^15: one limb more than `limbs`, the
\* last one being what does not fit
RECURSIVE MulLimbs(_, _, _)
MulLimbs(limbs, factor, carry) ==
    IF limbs = <<>> THEN <<carry>>
    ELSE LET term == Head(limbs) * factor + carry
         IN  <<term % 65536>> \o MulLimbs(Tail(limbs), factor, term \div 65536)

\* limbs / divisor, for a divisor below 2^15, the remainder of the limbs above being `rest`
RECURSIVE DivLimbs(_, _, _)
DivLimbs(limbs, divisor, rest) ==
    IF limbs = <<>> THEN <<>>
    ELSE LET term == rest * 65536 + limbs[Len(limbs)]
         IN  DivLimbs(SubSeq(limbs, 1, Len(limbs) - 1), divisor, term % divisor)
                 \o <<term \div divisor>>

LeqLimbs(a, b) ==
    \/ a = b
    \/ \E i \in DOMAIN a : a[i] < b[i] /\ \A j \in DOMAIN a : j > i => a[j] = b[j]

\* calculate_output, `amount_in * (10000 - fees_bps as u64) / 10000` on any u64, for
\* fees_bps <= 10000: with no fee the product overflows from amount_in = 1844674407370956 on
amount_with_fees_u64(amount_in, fees_bps, build) ==
    LET product == MulLimbs(amount_in, 10000 - fees_bps, 0) IN
    IF product[5] # 0 /\ build = "debug" THEN Panicked
    ELSE [ok |-> TRUE, panic |-> FALSE,
          value |-> DivLimbs(SubSeq(product, 1, 4), 10000, 0)]

\* whether arithmetic overflow panics (overflow-checks, the default of a debug build) or
\* wraps (the default of a release build)
Builds == {"debug", "release"}

\* get_quote, `amount_out * 99 / 100` on any u64: the product overflows from
\* amount_out = 186330748219288401 on
minimum_out_u64(amount_out, build) ==
    LET product == MulLimbs(amount_out, 99, 0) IN
    IF product[5] # 0 /\ build = "debug" THEN Panicked
    ELSE [ok |-> TRUE, panic |-> FALSE,
          value |-> DivLimbs(SubSeq(product, 1, 4), 100, 0)]

\* a + b + carry on limbs of equal number: one limb more, the last one being the carry out
RECURSIVE AddLimbs(_, _, _)
AddLimbs(a, b, carry) ==
    IF a = <<>> THEN <<carry>>
    ELSE LET term == Head(a) + Head(b) + carry
         IN  <<term % 65536>> \o AddLimbs(Tail(a), Tail(b), term \div 65536)

\* a - b - borrow on limbs of equal number, for a >= b
RECURSIVE SubLimbs(_, _, _)
SubLimbs(a, b, borrow) ==
    IF a = <<>> THEN <<>>
    ELSE LET term == Head(a) - Head(b) - borrow
         IN  <<term % 65536>> \o SubLimbs(Tail(a), Tail(b), IF term < 0 THEN 1 ELSE 0)

ZeroLimbs(n) == [i \in 1..n |-> 0]

\* the bytes of the limbs, least significant first
BytesOf(limbs) ==
    [i \in 1..2 * Len(limbs) |->
        IF i % 2 = 1 THEN limbs[(i + 1) \div 2] % 256 ELSE limbs[i \div 2] \div 256]

\* the full product of two u64, eight limbs: for each byte of b, from the most significant
\* one down, the sum so far times 256 plus a times the byte
MulWide(a, b) ==
    LET bytes == BytesOf(b)
        RECURSIVE times(_, _)
        times(acc, i) ==
            IF i = 0 THEN acc
            ELSE times(SubSeq(AddLimbs(SubSeq(MulLimbs(acc, 256, 0), 1, 8),
                                       MulLimbs(a, bytes[i], 0) \o ZeroLimbs(3), 0), 1, 8),
                       i - 1)
    IN  times(ZeroLimbs(8), Len(bytes))

\* the quotient of the u64 n by the u64 d, d > 0: long division, one binary digit of n at
\* a time from the most significant one down; acc is <<remainder, quotient>> so far
DivWide(n, d) ==
    LET divisor == d \o <<0>>
        RECURSIVE digit(_, _)
        digit(i, acc) ==
            IF i < 0 THEN acc[2]
            ELSE LET bit == (n[(i \div 16) + 1] \div PowerOfTwo(i % 16)) % 2
                     shifted == SubSeq(MulLimbs(acc[1], 2, bit), 1, 5)
                 IN  IF LeqLimbs(divisor, shifted)
                     THEN digit(i - 1, <<SubLimbs(shifted, divisor, 0),
                                         SubSeq(MulLimbs(acc[2], 2, 1), 1, 4)>>)
                     ELSE digit(i - 1, <<shifted, SubSeq(MulLimbs(acc[2], 2, 0), 1, 4)>>)
    IN  digit(63, <<ZeroLimbs(5), ZeroLimbs(4)>>)

\* whether a product or the sum of calculate_output exceeds u64 on these arguments
calculate_output_overflows(amount_in, reserve_in, reserve_out, fees_bps) ==
    LET product == MulLimbs(amount_in, 10000 - fees_bps, 0)
        amount_with_fees == DivLimbs(SubSeq(product, 1, 4), 10000, 0)
    IN  \/ product[5] # 0
        \/ SubSeq(MulWide(amount_with_fees, reserve_out), 5, 8) # ZeroLimbs(4)
        \/ AddLimbs(reserve_in, amount_with_fees, 0)[5] # 0

amount_out_u64_remaining_reserve(amount_in, reserve_in, reserve_out, fees_bps, build) ==
    LET product == MulLimbs(amount_in, 10000 - fees_bps, 0)
        amount_with_fees == DivLimbs(SubSeq(product, 1, 4), 10000, 0)
        numerator == SubSeq(MulWide(reserve_in, reserve_out), 1, 4)
        denominator == SubSeq(AddLimbs(reserve_in, amount_with_fees, 0), 1, 4)
    IN  IF denominator = ZeroLimbs(4) THEN Panicked
        ELSE [ok |-> TRUE, panic |-> FALSE, amount_out |-> DivWide(numerator, denominator)]

\* raydium::Client::calculate_output, the amount_out, on any u64 amount and reserves, for
\* fees_bps <= 10000:
\*     amount_with_fees = amount_in * (10000 - fees_bps as u64) / 10000
\*     numerator = amount_with_fees * reserve_out
\*     denominator = reserve_in + amount_with_fees
\*     amount_out = numerator / denominator
\* A product or sum above u64 panics in a build with overflow checks and wraps in one
\* without; the division panics on a zero denominator in both.
amount_out_u64(amount_in, reserve_in, reserve_out, fees_bps, build) ==
    LET product == MulLimbs(amount_in, 10000 - fees_bps, 0)
        amount_with_fees == DivLimbs(SubSeq(product, 1, 4), 10000, 0)
        numerator == SubSeq(MulWide(amount_with_fees, reserve_out), 1, 4)
        denominator == SubSeq(AddLimbs(reserve_in, amount_with_fees, 0), 1, 4)
    IN  IF /\ build = "debug"
           /\ calculate_output_overflows(amount_in, reserve_in, reserve_out, fees_bps)
        THEN Panicked
        ELSE IF denominator = ZeroLimbs(4) THEN Panicked
        ELSE [ok |-> TRUE, panic |-> FALSE, amount_out |-> DivWide(numerator, denominator)]

get_pool_ordered_only(pools, token_a, token_b) ==
    IF <<token_a, token_b>> \in DOMAIN pools
    THEN [ok |-> TRUE, pool |-> pools[<<token_a, token_b>>]]
    ELSE Failed("Pool not found")

\* raydium::Client::get_pool(token_a, token_b): the pool under the ordered key, else the pool
\* under the reversed key, else the error
raydium_get_pool(pools, token_a, token_b) ==
    IF <<token_a, token_b>> \in DOMAIN pools
    THEN [ok |-> TRUE, pool |-> pools[<<token_a, token_b>>]]
    ELSE IF <<token_b, token_a>> \in DOMAIN pools
    THEN [ok |-> TRUE, pool |-> pools[<<token_b, token_a>>]]
    ELSE Failed("Pool not found")

calculate_output_fee_on_output(amount_in, reserve_in, reserve_out, fees_bps) ==
    IF reserve_in + amount_in = 0 THEN Panicked
    ELSE [ok |-> TRUE, panic |-> FALSE,
          amount_out |-> MulDiv(MulDiv(amount_in, reserve_out, reserve_in + amount_in),
                                10000 - fees_bps, 10000),
          price_impact |-> price_impact(amount_in, reserve_in)]

calculate_output_wrapping(amount_in, reserve_in, reserve_out, fees_bps) ==
    LET amount_with_fees == MulDiv(amount_in, 10000 - fees_bps, 10000)
        denominator == reserve_in + amount_with_fees
    IN  IF denominator = 0 THEN Panicked
        ELSE [ok |-> TRUE, panic |-> FALSE,
              amount_out |-> (((amount_with_fees % 4096) * (reserve_out % 4096)) % 4096)
                                 \div denominator,
              price_impact |-> price_impact(amount_in, reserve_in)]

\* raydium::Client::calculate_output(amount_in, reserve_in, reserve_out, fees_bps), for
\* fees_bps <= 10000 and amounts and reserves below 2^31: there amount_in * (10000 -
\* fees_bps) is below 2^45, amount_with_fees * reserve_out below 2^62 and the sum below 2^32,
\* so no step exceeds u64 and the u64 results are the exact ones; the division panics on a
\* zero denominator. amount_out_u64 is the same calculation on the whole of u64, where a
\* product or the sum can overflow.
raydium_calculate_output(amount_in, reserve_in, reserve_out, fees_bps) ==
    LET amount_with_fees == MulDiv(amount_in, 10000 - fees_bps, 10000)
        denominator == reserve_in + amount_with_fees
    IN  IF denominator = 0 THEN Panicked
        ELSE [ok |-> TRUE, panic |-> FALSE,
              amount_out |-> MulDiv(amount_with_fees, reserve_out, denominator),
              price_impact |-> price_impact(amount_in, reserve_in)]

\* raydium::Client::get_quote(token_in, token_out, amount): reserve_a and reserve_b are
\* passed as reserve_in and reserve_out whichever token is sold
raydium_get_quote(pools, token_in, token_out, amount) ==
    LET found == raydium_get_pool(pools, token_in, token_out) IN
    IF ~found.ok THEN found
    ELSE LET out == raydium_calculate_output(amount, found.pool.reserve_a,
                                             found.pool.reserve_b, found.pool.fees_bps)
         IN  IF ~out.ok THEN out
             ELSE [ok |-> TRUE, panic |-> FALSE,
                   quote |-> [amount_in |-> amount,
                              amount_out |-> out.amount_out,
                              price_impact_bps |-> out.price_impact,
                              pool |-> found.pool.address,
                              minimum_out |-> minimum_out(out.amount_out)]]

\* orca::Client::get_whirlpool(token_a, token_b)
orca_get_whirlpool(whirlpools, token_a, token_b) ==
    IF <<token_a, token_b>> \in DOMAIN whirlpools
    THEN [ok |-> TRUE, pool |-> whirlpools[<<token_a, token_b>>]]
    ELSE IF <<token_b, token_a>> \in DOMAIN whirlpools
    THEN [ok |-> TRUE, pool |-> whirlpools[<<token_b, token_a>>]]
    ELSE Failed("Whirlpool not found")

\* orca::Client::get_tick_arrays: the start ticks of the three tick arrays of the swap (the
\* addresses derived from them are fresh on every call: derive_tick_arrays)
orca_get_tick_arrays(current_tick, tick_spacing, a_to_b) ==
    LET array_size == 88 * tick_spacing
        start_tick == IF a_to_b THEN current_tick - array_size ELSE current_tick
    IN  [i \in 1..3 |-> start_tick + (i - 1) * array_size]

\* orca::Client::simulate_swap, the amount: amount_in * liquidity / 10^12, as the quotient by
\* 10^6 of the quotient by 10^6
orca_simulate_swap(amount_in, liquidity) == MulDiv(amount_in, liquidity, 1000000) \div 1000000

\* orca::Client::calculate_output(amount_in, pool, a_to_b), for
\* fee_rate + protocol_fee_rate <= 10000
orca_calculate_output(amount_in, pool, a_to_b) ==
    LET amount_with_fees ==
            MulDiv(amount_in, 10000 - pool.fee_rate - pool.protocol_fee_rate, 10000)
    IN  [ok |-> TRUE, panic |-> FALSE,
         amount_out |-> orca_simulate_swap(amount_with_fees, pool.liquidity),
         price_impact |-> price_impact(amount_in, pool.liquidity),
         tick_arrays |-> orca_get_tick_arrays(pool.tick_current_index, pool.tick_spacing,
                                              a_to_b)]

\* orca::Client::get_quote(token_in, token_out, amount)
orca_get_quote(whirlpools, token_in, token_out, amount) ==
    LET found == orca_get_whirlpool(whirlpools, token_in, token_out) IN
    IF ~found.ok THEN found
    ELSE LET out == orca_calculate_output(amount, found.pool, token_in = found.pool.token_a)
         IN  [ok |-> TRUE, panic |-> FALSE,
              quote |-> [amount_in |-> amount,
                         amount_out |-> out.amount_out,
                         price_impact_bps |-> out.price_impact,
                         pool |-> found.pool.address,
                         minimum_out |-> minimum_out(out.amount_out),
                         tick_arrays |-> out.tick_arrays]]

-----------------------------------------------------------------------------
(* SwapEngine: src/swap/mod.rs *)

\* orca::Client::derive_tick_array, for each tick array of a quote: Pubkey::new_unique(), the
\* next values of the process-wide counter, whatever the start tick
derive_tick_arrays(start_ticks, counter) ==
    [i \in DOMAIN start_ticks |-> <<"unique", counter + i>>]

convert_quote_with_accounts(dex_type, quote) ==
    [field \in DOMAIN quote \ {"pool"} |-> quote[field]] @@ [dex_type |-> dex_type]

\* SwapEngine::convert_raydium_quote, convert_orca_quote (the transaction is
\* Transaction::default() in every Quote and is left out)
convert_quote(dex_type, quote) ==
    [dex_type |-> dex_type, amount_in |-> quote.amount_in, amount_out |-> quote.amount_out,
     price_impact_bps |-> quote.price_impact_bps, minimum_out |-> quote.minimum_out]

first_quote(quotes) == quotes[1]

\* Iterator::max_by_key(|q| q.amount_out) on a non-empty vector: of several maximal
\* elements the last one
RECURSIVE max_by_key(_)
max_by_key(quotes) ==
    IF Len(quotes) = 1 THEN quotes[1]
    ELSE LET best == max_by_key(SubSeq(quotes, 1, Len(quotes) - 1))
             last == quotes[Len(quotes)]
         IN  IF last.amount_out >= best.amount_out THEN last ELSE best

Idle == [pc |-> "idle"]

\* SwapEngine::new()
EngineNew ==
    /\ raydium_pools = <<>>
    /\ orca_whirlpools = <<>>
    /\ quote_cache = <<>>
    /\ call = Idle

get_best_quote_uncached(token_in, token_out, amount) ==
    /\ call.pc = "idle"
    /\ call' = [pc |-> "raydium", key |-> <<token_in, token_out, amount>>]
    /\ engine_result' = [op |-> "get_best_quote", key |-> <<token_in, token_out, amount>>,
                         outcome |-> "pending"]
    /\ UNCHANGED <<raydium_pools, orca_whirlpools, quote_cache, unique>>

\* get_best_quote(token_in, token_out, amount) up to its first suspension point: the cached
\* quote is returned, or the Raydium query is awaited
GetBestQuote(token_in, token_out, amount) ==
    LET cache_key == <<token_in, token_out, amount>> IN
    /\ call.pc = "idle"
    /\ IF cache_key \in DOMAIN quote_cache
       THEN /\ engine_result' = [op |-> "get_best_quote", key |-> cache_key,
                                 outcome |-> "Ok", hit |-> TRUE,
                                 value |-> quote_cache[cache_key]]
            /\ UNCHANGED call
       ELSE /\ call' = [pc |-> "raydium", key |-> cache_key]
            /\ engine_result' = [op |-> "get_best_quote", key |-> cache_key,
                                 outcome |-> "pending"]
    /\ UNCHANGED <<raydium_pools, orca_whirlpools, quote_cache, unique>>

\* self.raydium.get_quote(token_in, token_out, amount).await?
AwaitRaydium ==
    /\ call.pc = "raydium"
    /\ LET got == raydium_get_quote(raydium_pools, call.key[1], call.key[2], call.key[3]) IN
       IF got.ok
       THEN /\ call' = [pc |-> "orca", key |-> call.key, raydium_quote |-> got.quote]
            /\ UNCHANGED engine_result
       ELSE /\ call' = Idle
            /\ engine_result' = [op |-> "get_best_quote", key |-> call.key,
                                 outcome |-> IF got.panic THEN "panic" ELSE "Err",
                                 hit |-> FALSE, settled |-> {"Raydium"}]
    /\ UNCHANGED <<raydium_pools, orca_whirlpools, quote_cache, unique>>

\* self.orca.get_quote(token_in, token_out, amount).await?, and the rest of get_best_quote:
\* conversion, the choice of the best quote, the cache insertion
AwaitOrca ==
    /\ call.pc = "orca"
    /\ LET got == orca_get_quote(orca_whirlpools, call.key[1], call.key[2], call.key[3]) IN
       IF got.ok
       THEN LET orca_quote == [got.quote EXCEPT
                                   !.tick_arrays = derive_tick_arrays(@, unique)]
                quotes == <<convert_quote("Raydium", call.raydium_quote),
                            convert_quote("Orca", orca_quote)>>
                best_quote == max_by_key(quotes)
            IN  /\ quote_cache' = Insert(quote_cache, call.key, best_quote)
                /\ unique' = unique + Len(orca_quote.tick_arrays)
                /\ engine_result' = [op |-> "get_best_quote", key |-> call.key,
                                     outcome |-> "Ok", hit |-> FALSE, value |-> best_quote,
                                     settled |-> {"Raydium", "Orca"}]
       ELSE /\ engine_result' = [op |-> "get_best_quote", key |-> call.key,
                                 outcome |-> IF got.panic THEN "panic" ELSE "Err",
                                 hit |-> FALSE, settled |-> {"Raydium", "Orca"}]
            /\ UNCHANGED <<quote_cache, unique>>
    /\ call' = Idle
    /\ UNCHANGED <<raydium_pools, orca_whirlpools>>

abandon_keeping_partial ==
    /\ call.pc # "idle"
    /\ call' = Idle
    /\ engine_result' = [op |-> "get_best_quote", key |-> call.key, outcome |-> "abandoned",
                         at |-> call.pc]
    /\ quote_cache' = IF call.pc = "orca"
                      THEN Insert(quote_cache, call.key,
                                  convert_quote("Raydium", call.raydium_quote))
                      ELSE quote_cache
    /\ UNCHANGED <<raydium_pools, orca_whirlpools, unique>>

\* the caller drops the future of get_best_quote at a suspension point: `at` is the venue
\* query it was suspended on
Abandon ==
    /\ call.pc # "idle"
    /\ call' = Idle
    /\ engine_result' = [op |-> "get_best_quote", key |-> call.key, outcome |-> "abandoned",
                         at |-> call.pc]
    /\ UNCHANGED <<raydium_pools, orca_whirlpools, quote_cache, unique>>

\* another engine is built in the process, SwapEngine::new(), and the calls go to it from
\* now on: both clients are built anew, with no pool and no whirlpool, and the cache is
\* empty; the counter behind Pubkey::new_unique() is the process's and goes on
AnotherEngine ==
    /\ call.pc = "idle"
    /\ raydium_pools' = <<>>
    /\ orca_whirlpools' = <<>>
    /\ quote_cache' = <<>>
    /\ engine_result' = [op |-> "new"]
    /\ UNCHANGED <<call, unique>>

\* The external refresh collaborator of the specification ("venue liquidity mutates out of
\* band"): the venues' liquidity state is replaced, between calls on the engine. The quote
\* cache is the engine's and is not the collaborator's to touch.
Refresh(pools, whirlpools) ==
    /\ call.pc = "idle"
    /\ <<pools, whirlpools>> # <<raydium_pools, orca_whirlpools>>
    /\ raydium_pools' = pools
    /\ orca_whirlpools' = whirlpools
    /\ engine_result' = [op |-> "refresh"]
    /\ UNCHANGED <<quote_cache, call, unique>>

\* a PoolState and a WhirlpoolState of the USDC/SOL pair
PoolState(token_a, token_b, reserve_a, reserve_b, fees_bps) ==
    [address |-> "raydium-pool", token_a |-> token_a, token_b |-> token_b,
     reserve_a |-> reserve_a, reserve_b |-> reserve_b, fees_bps |-> fees_bps]

WhirlpoolState(token_a, token_b, liquidity) ==
    [address |-> "orca-whirlpool", token_a |-> token_a, token_b |-> token_b,
     tick_current_index |-> 0, tick_spacing |-> 8, fee_rate |-> 30,
     protocol_fee_rate |-> 0, liquidity |-> liquidity]

\* the Raydium liquidity states of the model: no pool, a deep pool with little output, a pool
\* with the price impact of the shallow whirlpool, and a balanced pool stored under the
\* reversed key
RaydiumStates ==
    {<<>>,
     <<USDC, SOL>> :> PoolState(USDC, SOL, 200000000, 20000, 30),
     <<USDC, SOL>> :> PoolState(USDC, SOL, 100000000, 9000, 30),
     <<SOL, USDC>> :> PoolState(SOL, USDC, 1000000, 1000000, 30)}

\* no pool, and Raydium pools nearly drained of their output token
DrainedRaydiumStates ==
    {<<>>,
     <<USDC, SOL>> :> PoolState(USDC, SOL, 200000000, 4000, 30),
     <<USDC, SOL>> :> PoolState(USDC, SOL, 200000000, 0, 30)}

\* the Orca liquidity states of the model: no whirlpool, a shallow one and a deep one
OrcaStates ==
    {<<>>,
     <<USDC, SOL>> :> WhirlpoolState(USDC, SOL, 100000000),
     <<USDC, SOL>> :> WhirlpoolState(USDC, SOL, 2000000000)}

\* no whirlpool, and whirlpools with next to no liquidity
DrainedOrcaStates ==
    {<<>>,
     <<USDC, SOL>> :> WhirlpoolState(USDC, SOL, 10000000),
     <<USDC, SOL>> :> WhirlpoolState(USDC, SOL, 1000000)}

\* the requests made of the engine
Pairs == {<<USDC, SOL>>, <<SOL, USDC>>}

\* Config::default().min_amount_usdc (src/utils/mod.rs), and amounts requested below it
\* and below SwapConfig::default().min_amount
min_amount_usdc == 1000000
DustAmounts == {100, 999}

\* amounts a venue can quote as amount_out: 0, 1, 100, 1000, 996006, the last one whose
\* product with 99 is within u64 and the next one, 199400000000000000 (what Orca quotes for
\* 10000 at liquidity 2 * 10^25 and fee rate 30) and u64::MAX
WideAmounts ==
    {<<0, 0, 0, 0>>,
     <<1, 0, 0, 0>>,
     <<100, 0, 0, 0>>,
     <<1000, 0, 0, 0>>,
     <<12966, 15, 0, 0>>,
     <<60240, 2647, 64212, 661>>,
     <<60241, 2647, 64212, 661>>,
     <<32768, 22582, 26942, 708>>,
     <<65535, 65535, 65535, 65535>>}

\* amounts a caller can ask a quote for: 10^6, the last one whose product with 10000 is
\* within u64 and the next one, and 2 * 10^15
WideInputs ==
    {<<16960, 15, 0, 0>>,
     <<4299, 47815, 36280, 6>>,
     <<4300, 47815, 36280, 6>>,
     <<0, 18829, 6909, 7>>}

\* inputs of raydium::Client::calculate_output: small amounts, reserves and fees, in every
\* combination, and the pool of 10^9 against 10^9 at 30 bps asked for 10^6
CalcAmounts == {0, 1, 2, 3, 100, 101, 1000, 1001}
CalcReserves == {0, 1, 1000, 5000}
CalcFees == {0, 30, 10000}
ExampleInput == <<1000000, 1000000000, 1000000000, 30>>
CalcInputs == (CalcAmounts \X CalcReserves \X CalcReserves \X CalcFees) \cup {ExampleInput}

\* inputs of calculate_output of the width of real pools: amounts 1, 900000, 900001 and
\* 10^6, reserves 10^9 and 2 * 10^13; on a reserve_out of 2 * 10^13 the product with the
\* amount after fees is within u64 for 900001 and above it for 10^6
WideCalcAmounts ==
    {<<1, 0, 0, 0>>,
     <<48032, 13, 0, 0>>,
     <<48033, 13, 0, 0>>,
     <<16960, 15, 0, 0>>}
WideCalcReserves ==
    {<<51712, 15258, 0, 0>>,
     <<16384, 40165, 4656, 0>>}

\* SwapConfig::slippage_bps: the default and a tighter setting
SlippageSettings == {100, 50}
Amounts == {50000, 100000}

-----------------------------------------------------------------------------
(* Specifications *)

\* per key: the add_swap calls made and those of them made with success = true; the calls
\* that did not fail on the clock, those of them made with success = true, the rates
\* amount_out / amount_in of those calls and the sum of their price_impact_bps
NoCalls == [attempts |-> 0, attempts_true |-> 0, calls |-> 0, successes |-> 0, rates |-> {},
            impacts |-> 0]

Seen(h, key) == IF key \in DOMAIN h THEN h[key] ELSE NoCalls

\* the counts after one more add_swap(route, success) call with the given outcome
Count(h, route, success, outcome) ==
    LET key == KeyOf(route)
        old == Seen(h, key)
        reached == outcome # "Err"
    IN  Insert(h, key,
            [attempts |-> old.attempts + 1,
             attempts_true |-> IF success THEN old.attempts_true + 1 ELSE old.attempts_true,
             calls |-> IF reached THEN old.calls + 1 ELSE old.calls,
             successes |-> IF reached /\ success THEN old.successes + 1 ELSE old.successes,
             rates |-> IF reached
                       THEN old.rates \cup {Ratio(route.amount_out, route.amount_in)}
                       ELSE old.rates,
             impacts |-> IF reached THEN old.impacts + route.price_impact_bps
                         ELSE old.impacts])

RECURSIVE Attempts(_, _)
Attempts(h, keys) ==
    IF keys = {} THEN 0
    ELSE LET k == CHOOSE x \in keys : TRUE
         IN  h[k].attempts + Attempts(h, keys \ {k})

\* The running average of Metrics is an f64 that is rounded at each operation. An f64 x
\* that is 0, or at least 2^-2 and below 2^8, is written as the integer x * 2^56 in four
\* 16-bit limbs, least significant first: every such f64 is a whole number of units.
F64Zero == <<0, 0, 0, 0>>

\* the f64 nearest to the exact value limbs / 2^56, plus a positive amount below one unit
\* when sticky: round to nearest, ties to even, on 53 significant bits
F64Round(limbs, sticky) ==
    LET dropped == BitLength(limbs[4]) - 5
    IN  IF dropped <= 0 THEN limbs
        ELSE LET unit == PowerOfTwo(dropped)
                 low == limbs[1] % unit
                 odd == (limbs[1] \div unit) % 2 = 1
                 up == \/ 2 * low > unit
                       \/ 2 * low = unit /\ (sticky \/ odd)
                 kept == [limbs EXCEPT ![1] = @ - low]
             IN  IF up THEN SubSeq(MulLimbs(kept, 1, unit), 1, 4) ELSE kept

\* x * (k as f64), x + (t as f64) and x / (n as f64) on f64, for small integers
F64MulInt(x, k) == F64Round(SubSeq(MulLimbs(x, k, 0), 1, 4), FALSE)

F64AddInt(x, t) == F64Round([x EXCEPT ![4] = @ + 256 * t], FALSE)

F64DivInt(x, n) ==
    LET quotient == DivLimbs(x, n, 0)
    IN  F64Round(quotient, SubSeq(MulLimbs(quotient, n, 0), 1, 4) # x)

\* src/src/lib.rs, SwapStats, #[derive(Default)]; total_volume and success_rate are
\* fractions, avg_execution_time is an f64 in limbs
SwapStatsDefault ==
    [total_swaps |-> 0, successful_swaps |-> 0, total_volume |-> Zero,
     success_rate |-> Zero, avg_execution_time |-> F64Zero]

\* a Metrics built as in test_metrics_recording, stats: SwapStats::default(); the
\* performance map is written by no code and is left out
StatsNew ==
    /\ stats = SwapStatsDefault
    /\ recorded = <<>>

MemoryInit ==
    /\ \E capacity \in 0..MaxCapacity : MemoryNew(capacity)
    /\ now \in -1..MaxTime
    /\ result = [op |-> "new"]
    /\ inserted = <<>>
    /\ observed = <<>>
    /\ EngineNew
    /\ engine_result = [op |-> "new"]
    /\ unique = 0
    /\ first_quotes = <<>>
    /\ StatsNew

\* add_swap in SpecMemory: the history keeps the records of the calls that returned Ok
RecordSwap ==
    \E swap \in LogSwaps :
        /\ Len(inserted) < MaxCalls
        /\ AddSwap(swap[1], swap[2])
        /\ inserted' = IF result'.outcome = "Ok"
                       THEN Append(inserted, SwapRecord(swap[1], swap[2], now))
                       ELSE inserted
        /\ UNCHANGED observed
        /\ UNCHANGED <<engine_vars, stats_vars>>

QueryMetrics == \E key \in QueryKeys : GetRelevantSwaps(key) /\ UNCHANGED <<engine_vars, stats_vars>>

QueryRate == \E key \in QueryKeys : GetSuccessRate(key) /\ UNCHANGED <<engine_vars, stats_vars>>

QueryRecent == \E seconds \in Windows, overflow_checks \in BOOLEAN :
                   GetRecentSwaps(seconds, overflow_checks) /\ UNCHANGED <<engine_vars, stats_vars>>

Clock == \E t \in -1..MaxTime : ClockSet(t) /\ UNCHANGED <<engine_vars, stats_vars>>

MemoryNext == RecordSwap \/ QueryMetrics \/ QueryRate \/ QueryRecent \/ Clock

SpecMemory == MemoryInit /\ [][MemoryNext]_vars

\* SpecMetrics: a store of capacity 0 or 1, so that records are evicted, observed at one
\* clock reading that is either valid or before the epoch
MetricsInit ==
    /\ \E capacity \in 0..1 : MemoryNew(capacity)
    /\ now \in {-1, 0}
    /\ result = [op |-> "new"]
    /\ inserted = <<>>
    /\ observed = <<>>
    /\ EngineNew
    /\ engine_result = [op |-> "new"]
    /\ unique = 0
    /\ first_quotes = <<>>
    /\ StatsNew

\* add_swap in SpecMetrics: the history keeps counts per route key
ObserveSwap ==
    \E route \in MetricRoutes, success \in BOOLEAN :
        /\ Attempts(observed, DOMAIN observed) < MaxObservations
        /\ AddSwap(route, success)
        /\ observed' = Count(observed, route, success, result'.outcome)
        /\ UNCHANGED inserted
        /\ UNCHANGED <<engine_vars, stats_vars>>

MetricsNext == ObserveSwap \/ QueryMetrics \/ QueryRate

SpecMetrics == MetricsInit /\ [][MetricsNext]_vars

\* SpecEngine: an engine whose venues were given liquidity state, beside the store that
\* init() builds
EngineInit ==
    /\ MemoryNew(0)
    /\ now = 0
    /\ result = [op |-> "new"]
    /\ inserted = <<>>
    /\ observed = <<>>
    /\ raydium_pools \in RaydiumStates
    /\ orca_whirlpools \in OrcaStates
    /\ quote_cache = <<>>
    /\ call = Idle
    /\ engine_result = [op |-> "new"]
    /\ unique = 0
    /\ first_quotes = <<>>
    /\ StatsNew

\* the history of first quotes after an operation that left `returned` in engine_result
Remember(history, returned) ==
    IF /\ returned.op = "get_best_quote"
       /\ returned.outcome = "Ok"
       /\ returned.key \notin DOMAIN history
    THEN Insert(history, returned.key, returned.value)
    ELSE history

RequestQuote == \E pair \in Pairs, amount \in Amounts :
                    /\ GetBestQuote(pair[1], pair[2], amount)
                    /\ first_quotes' = Remember(first_quotes, engine_result')
                    /\ UNCHANGED <<memory_vars, stats_vars>>

RaydiumSettles == AwaitRaydium /\ UNCHANGED <<memory_vars, stats_vars, first_quotes>>

OrcaSettles ==
    /\ AwaitOrca
    /\ first_quotes' = Remember(first_quotes, engine_result')
    /\ UNCHANGED <<memory_vars, stats_vars>>

CallerAbandons == Abandon /\ UNCHANGED <<memory_vars, stats_vars, first_quotes>>

EngineNext == RequestQuote \/ RaydiumSettles \/ OrcaSettles \/ CallerAbandons

SpecEngine == EngineInit /\ [][EngineNext]_vars

\* SpecRefresh: the engine beside the external refresh collaborator of the specification
LiquidityChanges ==
    \E pools \in RaydiumStates, whirlpools \in OrcaStates :
        Refresh(pools, whirlpools) /\ UNCHANGED <<memory_vars, stats_vars, first_quotes>>

RefreshNext == RequestQuote \/ RaydiumSettles \/ OrcaSettles \/ CallerAbandons
                   \/ LiquidityChanges

SpecRefresh == EngineInit /\ [][RefreshNext]_vars

\* SpecAdapters: the calculations of the adapters on inputs of their whole range, the last
\* one recorded in engine_result
AdapterInit ==
    /\ MemoryNew(0)
    /\ now = 0
    /\ result = [op |-> "new"]
    /\ inserted = <<>>
    /\ observed = <<>>
    /\ EngineNew
    /\ engine_result = [op |-> "new"]
    /\ unique = 0
    /\ first_quotes = <<>>
    /\ StatsNew

\* the minimum output of a quote of amount_out, in an engine initialised from a configuration
\* with the given slippage_bps
MinimumOut == \E amount_out \in WideAmounts, slippage_bps \in SlippageSettings,
                 build \in Builds :
    /\ engine_result' = [op |-> "minimum_out", amount_out |-> amount_out,
                         slippage_bps |-> slippage_bps, build |-> build,
                         out |-> minimum_out_u64(amount_out, build)]
    /\ UNCHANGED <<memory_vars, stats_vars, raydium_pools, orca_whirlpools, quote_cache, call, unique,
                   first_quotes>>

\* a call of raydium::Client::calculate_output
RaydiumCalculates == \E input \in CalcInputs :
    /\ engine_result' = [op |-> "calculate_output", amount_in |-> input[1],
                         reserve_in |-> input[2], reserve_out |-> input[3],
                         fees_bps |-> input[4],
                         out |-> raydium_calculate_output(input[1], input[2], input[3],
                                                          input[4])]
    /\ UNCHANGED <<memory_vars, stats_vars, raydium_pools, orca_whirlpools, quote_cache, call, unique,
                   first_quotes>>

\* the first step of raydium::Client::calculate_output, on amounts of the whole u64 range
TakesFees == \E amount_in \in WideInputs, fees_bps \in CalcFees, build \in Builds :
    /\ engine_result' = [op |-> "amount_with_fees", amount_in |-> amount_in,
                         fees_bps |-> fees_bps, build |-> build,
                         out |-> amount_with_fees_u64(amount_in, fees_bps, build)]
    /\ UNCHANGED <<memory_vars, stats_vars, raydium_pools, orca_whirlpools, quote_cache, call, unique,
                   first_quotes>>

\* a call of raydium::Client::calculate_output on amounts and reserves of any width: the
\* amount_out
RaydiumCalculatesWide ==
    \E amount_in \in WideCalcAmounts, reserve_in \in WideCalcReserves,
       reserve_out \in WideCalcReserves, fees_bps \in CalcFees, build \in Builds :
        /\ engine_result' = [op |-> "amount_out", amount_in |-> amount_in,
                             reserve_in |-> reserve_in, reserve_out |-> reserve_out,
                             fees_bps |-> fees_bps, build |-> build,
                             out |-> amount_out_u64(amount_in, reserve_in, reserve_out,
                                                    fees_bps, build)]
        /\ UNCHANGED <<memory_vars, stats_vars, raydium_pools, orca_whirlpools, quote_cache,
                       call, unique, first_quotes>>

AdapterNext == MinimumOut \/ RaydiumCalculates \/ TakesFees \/ RaydiumCalculatesWide

SpecAdapters == AdapterInit /\ [][AdapterNext]_vars

\* SpecDrained: an engine whose venues have next to nothing left to give
DrainedInit ==
    /\ MemoryNew(0)
    /\ now = 0
    /\ result = [op |-> "new"]
    /\ inserted = <<>>
    /\ observed = <<>>
    /\ raydium_pools \in DrainedRaydiumStates
    /\ orca_whirlpools \in DrainedOrcaStates
    /\ quote_cache = <<>>
    /\ call = Idle
    /\ engine_result = [op |-> "new"]
    /\ unique = 0
    /\ first_quotes = <<>>
    /\ StatsNew

DrainedNext == RequestQuote \/ RaydiumSettles \/ OrcaSettles \/ CallerAbandons

SpecDrained == DrainedInit /\ [][DrainedNext]_vars

\* SpecDust: quotes are requested for amounts below the configured minimum
RequestDust == \E pair \in Pairs, amount \in DustAmounts :
                   /\ GetBestQuote(pair[1], pair[2], amount)
                   /\ first_quotes' = Remember(first_quotes, engine_result')
                   /\ UNCHANGED <<memory_vars, stats_vars>>

DustNext == RequestDust \/ RaydiumSettles \/ OrcaSettles

SpecDust == EngineInit /\ [][DustNext]_vars

\* SpecTwin: engines of one process, one after the other. The counter behind
\* Pubkey::new_unique() is the process's: an engine starts from wherever the code that ran
\* before it left the counter
TwinInit ==
    /\ MemoryNew(0)
    /\ now = 0
    /\ result = [op |-> "new"]
    /\ inserted = <<>>
    /\ observed = <<>>
    /\ raydium_pools \in RaydiumStates
    /\ orca_whirlpools \in OrcaStates
    /\ quote_cache = <<>>
    /\ call = Idle
    /\ engine_result = [op |-> "new"]
    /\ unique \in {0, MaxUnique}
    /\ first_quotes = <<>>
    /\ StatsNew

TwinEngine ==
    /\ engine_result.op # "new"
    /\ AnotherEngine
    /\ UNCHANGED <<memory_vars, stats_vars, first_quotes>>

TwinNext == RequestQuote \/ RaydiumSettles \/ OrcaSettles \/ TwinEngine

SpecTwin == TwinInit /\ [][TwinNext]_vars

\* src/src/lib.rs, Metrics
\* Metrics::record_success(volume, execution_time), on the stats
record_success(s, volume, execution_time) ==
    LET total == s.total_swaps + 1
        successful == s.successful_swaps + 1
    IN  [total_swaps |-> total,
         successful_swaps |-> successful,
         total_volume |-> MulAdd(s.total_volume, 1, volume),
         success_rate |-> Ratio(successful, total),
         avg_execution_time |->
             F64DivInt(F64AddInt(F64MulInt(s.avg_execution_time, total - 1),
                                 execution_time), total)]

record_failure_keeping_rate(s) == [s EXCEPT !.total_swaps = @ + 1]

\* Metrics::record_failure(), on the stats
record_failure(s) ==
    [s EXCEPT !.total_swaps = @ + 1,
              !.success_rate = Ratio(s.successful_swaps, s.total_swaps + 1)]

\* the volumes and execution times passed to record_success
Volumes == {1000, 250}
ExecutionTimes == {2, 4}

\* SpecStats: a Metrics object takes record_success and record_failure calls in any order
StatsInit ==
    /\ MemoryNew(0)
    /\ now = 0
    /\ result = [op |-> "new"]
    /\ inserted = <<>>
    /\ observed = <<>>
    /\ EngineNew
    /\ engine_result = [op |-> "new"]
    /\ unique = 0
    /\ first_quotes = <<>>
    /\ StatsNew

RecordSuccess == \E volume \in Volumes, execution_time \in ExecutionTimes :
    /\ Len(recorded) < MaxRecorded
    /\ stats' = record_success(stats, volume, execution_time)
    /\ recorded' = Append(recorded, [success |-> TRUE, volume |-> volume,
                                     execution_time |-> execution_time])
    /\ UNCHANGED <<memory_vars, engine_vars>>

RecordFailure ==
    /\ Len(recorded) < MaxRecorded
    /\ stats' = record_failure(stats)
    /\ recorded' = Append(recorded, [success |-> FALSE])
    /\ UNCHANGED <<memory_vars, engine_vars>>

StatsNext == RecordSuccess \/ RecordFailure

SpecStats == StatsInit /\ [][StatsNext]_vars

-----------------------------------------------------------------------------
(* Claims about the Memory store *)

Min(a, b) == IF a < b THEN a ELSE b

One == <<1, 1>>

\* C1: a store of capacity c >= 1 holds, after n add_swap calls that returned Ok, exactly
\* the last min(n, c) records inserted, unchanged and in insertion order.
C1_LastRecordsKept ==
    max_records >= 1 =>
        LET n == Len(inserted)
            kept == Min(n, max_records)
        IN  /\ Len(records) = kept
            /\ records = SubSeq(inserted, n - kept + 1, n)

\* a full store into which more records were inserted than it holds
C1_Evicted ==
    /\ max_records >= 1
    /\ Len(inserted) > max_records
    /\ Len(records) = max_records

\* C2 as stated: for every route key total_swaps is the number of add_swap calls ever made
\* for the key and successful_swaps the number of those calls with success = true.
C2_EveryCallCounted ==
    \A key \in QueryKeys :
        /\ get_relevant_swaps(metrics, key).total_swaps = Seen(observed, key).attempts
        /\ get_relevant_swaps(metrics, key).successful_swaps = Seen(observed, key).attempts_true

C2_Counts ==
    \A key \in QueryKeys :
        /\ get_relevant_swaps(metrics, key).total_swaps = Seen(observed, key).calls
        /\ get_relevant_swaps(metrics, key).successful_swaps = Seen(observed, key).successes

C2_NoDecrease ==
    \A key \in QueryKeys :
        /\ get_relevant_swaps(metrics, key).total_swaps
               <= get_relevant_swaps(metrics', key).total_swaps
        /\ get_relevant_swaps(metrics, key).successful_swaps
               <= get_relevant_swaps(metrics', key).successful_swaps

\* C2, amended: for every route key total_swaps is the number of add_swap calls made for
\* the key that did not fail on the clock and successful_swaps the number of those calls
\* with success = true, whatever was evicted from the log; neither counter ever decreases.
C2_CumulativeCounts == [](C2_Counts) /\ [][C2_NoDecrease]_vars

\* a key counted three times, once with success = false, of which the log of capacity 1
\* holds at most one record
C2_CountedAfterEviction ==
    \E key \in DOMAIN metrics :
        /\ metrics[key].total_swaps >= 3
        /\ metrics[key].successful_swaps = metrics[key].total_swaps - 1
        /\ Len(records) = 1
        /\ memory_state = "live"

\* C3: every RouteMetrics entry has successful_swaps <= total_swaps.
C3_SuccessfulAtMostTotal ==
    \A key \in DOMAIN metrics :
        metrics[key].successful_swaps <= metrics[key].total_swaps

\* an entry that counts both successful and failed swaps
C3_MixedOutcomes ==
    \E key \in DOMAIN metrics :
        /\ 0 < metrics[key].successful_swaps
        /\ metrics[key].successful_swaps < metrics[key].total_swaps

\* C4: every RouteMetrics entry with total_swaps >= 1 has best_rate >= worst_rate, for
\* swaps with amount_in > 0 and any observed rates, rates equal to 0 included.
C4_BestAtLeastWorst ==
    \A key \in DOMAIN metrics :
        metrics[key].total_swaps >= 1 =>
            Leq(metrics[key].worst_rate, metrics[key].best_rate)

\* an entry that observed the rate 0 and two other rates, with worst_rate set again after
\* the rate 0
C4_AfterZeroRate ==
    \E key \in DOMAIN metrics :
        /\ key \in DOMAIN observed
        /\ Zero \in observed[key].rates
        /\ Cardinality(observed[key].rates) >= 3
        /\ metrics[key].worst_rate # Zero
        /\ metrics[key].worst_rate # metrics[key].best_rate

\* C5: get_success_rate returns 0.0 for a key never recorded and successful_swaps /
\* total_swaps of the key otherwise, a value in [0, 1]: 0.5 after one success and one
\* failure, 0.6 after three successes and two failures, 1.0 when every swap succeeded.
C5_SuccessRate ==
    result.op = "get_success_rate" =>
        LET seen == Seen(observed, result.key) IN
        /\ seen.calls = 0 => result.value = Zero
        /\ seen.calls > 0 => result.value = Ratio(seen.successes, seen.calls)
        /\ Leq(Zero, result.value) /\ Leq(result.value, One)
        /\ seen.calls = 2 /\ seen.successes = 1 => result.value = <<1, 2>>
        /\ seen.calls = 5 /\ seen.successes = 3 => result.value = <<3, 5>>
        /\ seen.calls > 0 /\ seen.successes = seen.calls => result.value = One

\* the rate of a key after three successes and two failures
C5_ThreeOfFive ==
    /\ result.op = "get_success_rate"
    /\ Seen(observed, result.key).calls = 5
    /\ Seen(observed, result.key).successes = 3
    /\ result.value = <<3, 5>>

\* C6: get_relevant_swaps, get_success_rate and get_recent_swaps leave the record sequence
\* and the metrics map unchanged; get_relevant_swaps of a key never observed returns
\* all-zero metrics and creates no entry for the key.
C6_QueriesReadOnly ==
    [][result'.op \in {"get_relevant_swaps", "get_success_rate", "get_recent_swaps"} =>
        /\ records' = records
        /\ metrics' = metrics
        /\ (result'.op = "get_relevant_swaps" /\ result'.key \notin DOMAIN metrics) =>
               /\ result'.value = DefaultRouteMetrics
               /\ result'.key \notin DOMAIN metrics']_vars

\* get_relevant_swaps was asked about a key never observed in a store that observed others
C6_UnobservedKeyAsked ==
    /\ result.op = "get_relevant_swaps"
    /\ result.key \notin DOMAIN metrics
    /\ DOMAIN metrics # {}
    /\ records # <<>>

\* the records of the log whose age  reading - timestamp  is at most seconds, in log order
WithinWindow(log, reading, seconds) ==
    SelectSeq(log, LAMBDA r : reading - r.timestamp <= seconds)

\* C7: get_recent_swaps(w) returns exactly the records in the log whose age
\* now - timestamp is at most w seconds, in insertion order.
C7_RecentWithinWindow ==
    result.op = "get_recent_swaps" =>
        /\ ~result.panic
        /\ result.value = WithinWindow(records, result.reading, result.seconds)

\* a call of get_best_quote that missed the cache and ran to its return
MissReturned ==
    /\ engine_result.op = "get_best_quote"
    /\ engine_result.outcome \in {"Ok", "Err"}
    /\ ~engine_result.hit

\* what each venue answers to the request of the last call, from the liquidity state the
\* call ran on
RaydiumAnswer ==
    raydium_get_quote(raydium_pools, engine_result.key[1], engine_result.key[2],
                      engine_result.key[3])

OrcaAnswer ==
    orca_get_quote(orca_whirlpools, engine_result.key[1], engine_result.key[2],
                   engine_result.key[3])

\* C8: on a cache miss where every venue returns a quote, get_best_quote returns a quote
\* whose amount_out is the largest of the venues' amount_out, no smaller than any venue's,
\* whose dex_type is a venue that produced that amount, and whose amount_in is the amount
\* requested
C8_BestOfVenues ==
    (MissReturned /\ RaydiumAnswer.ok /\ OrcaAnswer.ok) =>
        LET returned == engine_result.value
            raydium_out == RaydiumAnswer.quote.amount_out
            orca_out == OrcaAnswer.quote.amount_out
        IN  /\ engine_result.outcome = "Ok"
            /\ returned.amount_out \in {raydium_out, orca_out}
            /\ returned.amount_out >= raydium_out
            /\ returned.amount_out >= orca_out
            /\ returned.dex_type = "Raydium" => returned.amount_out = raydium_out
            /\ returned.dex_type = "Orca" => returned.amount_out = orca_out
            /\ returned.dex_type \in DexType
            /\ returned.amount_in = engine_result.key[3]

\* C8 happens both ways: Orca quoted more and its quote was returned
C8_OrcaQuotedMore ==
    /\ MissReturned
    /\ RaydiumAnswer.ok /\ OrcaAnswer.ok
    /\ OrcaAnswer.quote.amount_out > RaydiumAnswer.quote.amount_out
    /\ RaydiumAnswer.quote.amount_out > 0
    /\ engine_result.value.dex_type = "Orca"

\* C9: when the venues' quotes tie on amount_out, get_best_quote returns the quote with
\* the lower price_impact_bps, and when that is equal too, Raydium's
C9_TieOnAmountOut ==
    (MissReturned /\ RaydiumAnswer.ok /\ OrcaAnswer.ok
        /\ RaydiumAnswer.quote.amount_out = OrcaAnswer.quote.amount_out) =>
        /\ engine_result.outcome = "Ok"
        /\ engine_result.value.dex_type =
               IF OrcaAnswer.quote.price_impact_bps < RaydiumAnswer.quote.price_impact_bps
               THEN "Orca" ELSE "Raydium"

\* C10: get_best_quote fails only when every venue fails; while some venue returns a
\* quote it succeeds, with a quote of a venue that returned one
C10_FailsOnlyWhenAllFail ==
    MissReturned =>
        /\ engine_result.outcome = "Err" <=> (~RaydiumAnswer.ok /\ ~OrcaAnswer.ok)
        /\ engine_result.outcome = "Ok" =>
               \/ RaydiumAnswer.ok /\ engine_result.value.dex_type = "Raydium"
               \/ OrcaAnswer.ok /\ engine_result.value.dex_type = "Orca"

\* C11: on a cache miss get_best_quote returns, with a quote or with an error, only after
\* every venue has been queried and its query has settled
C11_AllVenuesSettled ==
    MissReturned => engine_result.settled = DexType

\* a successful get_best_quote has returned
QuoteReturned ==
    /\ engine_result.op = "get_best_quote"
    /\ engine_result.outcome = "Ok"

\* every entry of the cache is still there, unchanged
CacheEntriesKept ==
    \A key \in DOMAIN quote_cache :
        key \in DOMAIN quote_cache' /\ quote_cache'[key] = quote_cache[key]

\* a call for a key that is in the cache returns in one step, with the cached quote: no
\* venue query is started and the cache is as it was
CachedKeyServed ==
    \A key \in DOMAIN quote_cache :
        /\ (call.pc = "idle" /\ call'.pc # "idle") => call'.key # key
        /\ (call.pc = "idle" /\ engine_result' # engine_result
               /\ engine_result'.op = "get_best_quote" /\ engine_result'.key = key) =>
               /\ engine_result'.outcome = "Ok"
               /\ engine_result'.hit
               /\ engine_result'.value = quote_cache[key]
               /\ UNCHANGED <<quote_cache, call>>

\* C12: once get_best_quote has succeeded for a key, every later call with that key returns
\* a quote equal in every field to the first one, queries no venue and leaves the cache
\* as it was, also after the venues' liquidity has changed; no cache entry is ever removed
\* or replaced
C12_CachedQuoteForever ==
    /\ [](QuoteReturned => engine_result.value = first_quotes[engine_result.key])
    /\ [][CacheEntriesKept /\ CachedKeyServed]_vars

\* C12 happens: a cached quote was returned although the venues, whose liquidity has
\* changed since, now answer with other amounts
C12_StaleQuoteServed ==
    /\ QuoteReturned
    /\ engine_result.hit
    /\ RaydiumAnswer.ok /\ OrcaAnswer.ok
    /\ engine_result.value.amount_out
           \notin {RaydiumAnswer.quote.amount_out, OrcaAnswer.quote.amount_out}

\* C13: the cache is modified only by a get_best_quote that completes successfully, and
\* then only by inserting the quote it returns, the best of the venues', under the requested
\* key; a call that fails or is abandoned at a venue query leaves the cache as it was
C13_CacheWrittenOnSuccessOnly ==
    [][/\ quote_cache' # quote_cache =>
            /\ call.pc = "orca" /\ call'.pc = "idle"
            /\ engine_result'.op = "get_best_quote"
            /\ engine_result'.outcome = "Ok"
            /\ ~engine_result'.hit
            /\ engine_result'.key = call.key
            /\ engine_result'.value.amount_out >= call.raydium_quote.amount_out
            /\ engine_result'.value.amount_out >=
                   orca_get_quote(orca_whirlpools, call.key[1], call.key[2],
                                  call.key[3]).quote.amount_out
            /\ quote_cache' = (call.key :> engine_result'.value) @@ quote_cache
       /\ (call.pc # "idle" /\ call'.pc = "idle"
               /\ engine_result'.outcome \in {"Err", "panic", "abandoned"}) =>
            UNCHANGED quote_cache]_vars

\* C13 happens: a call was abandoned while the Orca query was pending, with Raydium's quote
\* in hand, beside a cache that holds other keys and not this one
C13_AbandonedWithPartialResult ==
    /\ engine_result.op = "get_best_quote"
    /\ engine_result.outcome = "abandoned"
    /\ engine_result.at = "orca"
    /\ quote_cache # <<>>
    /\ engine_result.key \notin DOMAIN quote_cache

\* what an engine fresh from construction over the same venue liquidity state, with an empty
\* cache and the counter behind Pubkey::new_unique() at 0, returns to the request of the
\* last call
TwinAnswer ==
    IF ~RaydiumAnswer.ok THEN [outcome |-> "Err"]
    ELSE IF ~OrcaAnswer.ok THEN [outcome |-> "Err"]
    ELSE LET orca_quote == [OrcaAnswer.quote EXCEPT
                                !.tick_arrays = derive_tick_arrays(@, 0)]
         IN  [outcome |-> "Ok",
              value |-> max_by_key(<<convert_quote("Raydium", RaydiumAnswer.quote),
                                     convert_quote("Orca", orca_quote)>>)]

\* C14: engines with equal venue liquidity state and empty caches return quotes equal in
\* every field for the same (token_in, token_out, amount), also when the venues tie on
\* amount_out: whatever the engine that ran the call had cached and wherever the process's
\* counter stood, a call that missed the cache returns what the fresh engine over the same
\* liquidity state returns
C14_EqualStateEqualQuote ==
    MissReturned =>
        /\ engine_result.outcome = TwinAnswer.outcome
        /\ engine_result.outcome = "Ok" => engine_result.value = TwinAnswer.value

\* C14 happens: an engine with an empty cache that started from an advanced counter has
\* computed a quote on a tie of the venues
C14_AdvancedCounterOnTie ==
    /\ MissReturned /\ engine_result.outcome = "Ok"
    /\ DOMAIN quote_cache = {engine_result.key}
    /\ unique = MaxUnique + Len(OrcaAnswer.quote.tick_arrays)
    /\ RaydiumAnswer.quote.amount_out = OrcaAnswer.quote.amount_out

\* C15: calls of get_best_quote for one key on unchanged liquidity, in any order the engine
\* admits them (get_best_quote borrows the engine exclusively, so one call runs at a time),
\* all succeed with the same quote whenever some venue quotes the key, the quote that is
\* the cache's entry for the key; a call in flight has left no entry for its key
C15_CallsForAKeyAgree ==
    /\ call.pc # "idle" => call.key \notin DOMAIN quote_cache
    /\ (/\ engine_result.op = "get_best_quote"
        /\ engine_result.outcome \notin {"pending", "abandoned"}
        /\ RaydiumAnswer.ok \/ OrcaAnswer.ok) =>
           /\ engine_result.outcome = "Ok"
           /\ engine_result.key \in DOMAIN quote_cache
           /\ quote_cache[engine_result.key] = engine_result.value

\* floor(amount_out * (10000 - slippage_bps) / 10000), exactly
SlippageFloor(amount_out, slippage_bps) ==
    SubSeq(DivLimbs(MulLimbs(amount_out, 10000 - slippage_bps, 0), 10000, 0), 1, 4)

\* C16: the minimum_out of every quote of an adapter is at most its amount_out and is
\* floor(amount_out * (10000 - slippage_bps) / 10000) for the configured slippage_bps, 100 by
\* default, for every amount_out of the u64 range
C16_MinimumOutIsSlippageFloor ==
    engine_result.op = "minimum_out" =>
        /\ engine_result.out.ok
        /\ LeqLimbs(engine_result.out.value, engine_result.amount_out)
        /\ engine_result.out.value =
               SlippageFloor(engine_result.amount_out, engine_result.slippage_bps)

\* C17: every quote that get_best_quote returns has 0 < minimum_out < amount_out
C17_MinimumOutWithinQuote ==
    QuoteReturned =>
        /\ 0 < engine_result.value.minimum_out
        /\ engine_result.value.minimum_out < engine_result.value.amount_out

\* raydium::Client::calculate_output has returned an output
Calculated ==
    /\ engine_result.op = "calculate_output"
    /\ engine_result.out.ok

\* the inputs of the last calculation
CalcInput ==
    <<engine_result.amount_in, engine_result.reserve_in, engine_result.reserve_out,
      engine_result.fees_bps>>

\* C18: the constant-product adapter returns amount_out = floor(f * reserve_out /
\* (reserve_in + f)) with f = floor(amount_in * (10000 - fees_bps) / 10000), each floor
\* stated by the two inequalities that define it; reserves of 10^9 and 10^9, a fee of 30 bps
\* and an input of 10^6 give floor(997000 * 10^9 / 1000997000) = 996006 and a price impact
\* of 10 bps
C18_ConstantProductFloor ==
    Calculated =>
        IF CalcInput = ExampleInput
        THEN /\ engine_result.out.amount_out = 996006
             /\ engine_result.out.price_impact = 10
        ELSE \E f \in 0..engine_result.amount_in :
                 LET taken == engine_result.amount_in * (10000 - engine_result.fees_bps)
                     amount_out == engine_result.out.amount_out
                     denominator == engine_result.reserve_in + f
                 IN  /\ f * 10000 <= taken
                     /\ taken < (f + 1) * 10000
                     /\ amount_out * denominator <= f * engine_result.reserve_out
                     /\ f * engine_result.reserve_out < (amount_out + 1) * denominator

\* C18 happens: the example of the pool of 10^9 against 10^9 was calculated
C18_ExampleCalculated ==
    /\ Calculated
    /\ CalcInput = ExampleInput
    /\ engine_result.out.amount_out = 996006

\* amount_out for each positive amount of the model smaller than the last one calculated,
\* on the same reserves and fee
LesserOutputs ==
    {<<amount, raydium_calculate_output(amount, engine_result.reserve_in,
                                        engine_result.reserve_out,
                                        engine_result.fees_bps).amount_out>> :
         amount \in {a \in CalcAmounts : 0 < a /\ a < engine_result.amount_in}}

PositiveReserves ==
    /\ Calculated
    /\ engine_result.reserve_in > 0
    /\ engine_result.reserve_out > 0

\* the amount_out of a call on amounts and reserves of any width has been calculated
WideCalculated == engine_result.op = "amount_out"

\* no product and no sum of the last calculation exceeds u64
WithinU64 ==
    ~calculate_output_overflows(engine_result.amount_in, engine_result.reserve_in,
                                engine_result.reserve_out, engine_result.fees_bps)

\* what calculate_output returns, in the same build, for each amount of the model smaller
\* than the last one calculated, on the same reserves and fee
WideLesserOutputs ==
    {amount_out_u64(amount, engine_result.reserve_in, engine_result.reserve_out,
                    engine_result.fees_bps, engine_result.build) :
         amount \in {a \in WideCalcAmounts :
                        a # engine_result.amount_in /\ LeqLimbs(a, engine_result.amount_in)}}

\* C19, as the code has it: with fixed positive reserves and a fixed fee, amount_out never
\* decreases as amount_in grows, amount_out(a1) <= amount_out(a2) for a1 < a2, as long as
\* no product or sum of the calculation for a2 exceeds u64; when one does, a build with
\* overflow checks panics (a build without returns a wrapped value, of no order)
C19_OutputNeverDecreases ==
    /\ PositiveReserves =>
           \A lesser \in LesserOutputs : lesser[2] <= engine_result.out.amount_out
    /\ (WideCalculated /\ WithinU64) =>
           /\ engine_result.out.ok
           /\ \A lesser \in WideLesserOutputs :
                  lesser.ok /\ LeqLimbs(lesser.amount_out, engine_result.out.amount_out)
    /\ (WideCalculated /\ ~WithinU64 /\ engine_result.build = "debug") =>
           engine_result.out.panic

\* C19 happens: on reserves of 2 * 10^13 an input within u64 gave more than a smaller one
\* and the same as another smaller one
C19_LargerInputCompared ==
    /\ WideCalculated /\ WithinU64
    /\ engine_result.reserve_out = <<16384, 40165, 4656, 0>>
    /\ \E lesser \in WideLesserOutputs : lesser.amount_out # engine_result.out.amount_out
    /\ \E lesser \in WideLesserOutputs : lesser.amount_out = engine_result.out.amount_out

\* C19 as stated: amount_out is strictly increasing in amount_in, amount_out(a1) <
\* amount_out(a2) for a1 < a2
C19_OutputStrictlyIncreases ==
    /\ PositiveReserves =>
           \A lesser \in LesserOutputs : lesser[2] < engine_result.out.amount_out
    /\ WideCalculated =>
           /\ engine_result.out.ok
           /\ \A lesser \in WideLesserOutputs :
                  /\ lesser.ok
                  /\ lesser.amount_out # engine_result.out.amount_out
                  /\ LeqLimbs(lesser.amount_out, engine_result.out.amount_out)

\* C20: every amount_out the constant-product adapter returns is strictly less than the
\* reserve of the output side, also when the reserve of the input side is zero
C20_PoolNeverDrained ==
    Calculated => engine_result.out.amount_out < engine_result.reserve_out

\* C21: an adapter's get_quote fails when the output it computes is zero, so that no venue
\* answers with a quote of amount_out = 0 and every quote get_best_quote returns has
\* amount_out > 0
C21_ZeroOutputRejected ==
    /\ MissReturned =>
           /\ RaydiumAnswer.ok => RaydiumAnswer.quote.amount_out > 0
           /\ OrcaAnswer.ok => OrcaAnswer.quote.amount_out > 0
    /\ QuoteReturned => engine_result.value.amount_out > 0

\* whether a venue's map holds liquidity state for the pair of the last call, under the
\* ordered or the reversed key
Holds(pools) ==
    \/ <<engine_result.key[1], engine_result.key[2]>> \in DOMAIN pools
    \/ <<engine_result.key[2], engine_result.key[1]>> \in DOMAIN pools

\* a venue's answer is its pool-not-found error
NotFound(answer, message) ==
    /\ ~answer.ok
    /\ ~answer.panic
    /\ answer.error = message

\* C22: an adapter's get_quote fails with its pool-not-found error if and only if the venue
\* holds no liquidity state under the ordered key (token_in, token_out) nor under the
\* reversed key; a pool stored under either order is the one that prices both directions
C22_PoolNotFoundIffNoPool ==
    MissReturned =>
        /\ NotFound(RaydiumAnswer, "Pool not found") <=> ~Holds(raydium_pools)
        /\ NotFound(OrcaAnswer, "Whirlpool not found") <=> ~Holds(orca_whirlpools)
        /\ RaydiumAnswer.ok =>
               \E key \in DOMAIN raydium_pools :
                   RaydiumAnswer.quote.pool = raydium_pools[key].address
        /\ OrcaAnswer.ok =>
               \E key \in DOMAIN orca_whirlpools :
                   OrcaAnswer.quote.pool = orca_whirlpools[key].address

\* C22 happens: a quote was returned for a pair whose Raydium pool is stored under the
\* reversed key only
C22_ServedFromReversedKey ==
    /\ MissReturned
    /\ engine_result.outcome = "Ok"
    /\ <<engine_result.key[1], engine_result.key[2]>> \notin DOMAIN raydium_pools
    /\ <<engine_result.key[2], engine_result.key[1]>> \in DOMAIN raydium_pools

\* C23: every quote of an adapter has price_impact_bps within 0..10000: a venue calculation
\* that yields more, on an input above the input-side reserve or on a zero reserve, is
\* clamped to 10000 or gives no quote
C23_PriceImpactWithinDomain ==
    Calculated =>
        /\ 0 <= engine_result.out.price_impact
        /\ engine_result.out.price_impact <= 10000

\* the exact result, or an error that is returned
ExactOrError(out, exact) ==
    IF out.ok THEN out.value = exact ELSE ~out.panic

\* C24: the quote math of the adapters yields the exact result of its formula or fails with
\* an error, on amounts of the whole u64 range: the product with 10000 - fee, the division
\* by reserve_in + amount_with_fees and the slippage multiplication neither wrap nor panic
C24_QuoteMathExactOrError ==
    /\ engine_result.op = "amount_with_fees" =>
           ExactOrError(engine_result.out,
                        SlippageFloor(engine_result.amount_in, engine_result.fees_bps))
    /\ engine_result.op = "calculate_output" => ~engine_result.out.panic
    /\ engine_result.op = "minimum_out" =>
           ExactOrError(engine_result.out, SlippageFloor(engine_result.amount_out, 100))

-----------------------------------------------------------------------------
(* Claims about the metrics of a route *)

\* the rates recorded for a key
RatesOf(key) == Seen(observed, key).rates

\* C25: once swaps were recorded for a route key, worst_rate is the minimum of
\* amount_out / amount_in over all of them, a rate of 0 included
C25_WorstRateIsMinimum ==
    \A key \in DOMAIN metrics :
        RatesOf(key) # {} =>
            /\ metrics[key].worst_rate \in RatesOf(key)
            /\ \A rate \in RatesOf(key) : Leq(metrics[key].worst_rate, rate)

\* C26: after n >= 1 swaps recorded for a route key, avg_price_impact is the arithmetic mean
\* of their price_impact_bps, avg * n = sum in exact arithmetic; after the first one it is
\* that swap's price impact
C26_AverageIsMean ==
    \A key \in DOMAIN metrics :
        LET entry == metrics[key]
            seen == Seen(observed, key)
        IN  /\ entry.total_swaps = seen.calls
            /\ entry.total_swaps >= 1
            /\ entry.avg_price_impact = Ratio(seen.impacts, seen.calls)

\* C26 happens: three swaps with price impacts 100, 100 and 0, or 100, 0 and 0, were
\* recorded for a key, so that the mean is not a whole number
C26_MeanOfThree ==
    \E key \in DOMAIN metrics :
        /\ metrics[key].total_swaps = 3
        /\ metrics[key].avg_price_impact[2] = 3

\* C30: once swaps were recorded for a route key, best_rate is the maximum of
\* amount_out / amount_in over all of them
C30_BestRateIsMaximum ==
    \A key \in DOMAIN metrics :
        RatesOf(key) # {} =>
            /\ metrics[key].best_rate \in RatesOf(key)
            /\ \A rate \in RatesOf(key) : Leq(rate, metrics[key].best_rate)

\* C30 happens: the rates 2, then 1/2 or 1 or 0, were recorded for a key: the last rate is
\* not the best one
C30_BestRateNotLast ==
    \E key \in DOMAIN metrics :
        /\ Cardinality(RatesOf(key)) >= 2
        /\ metrics[key].best_rate = <<2, 1>>
        /\ result.op = "add_swap"
        /\ metrics[key].total_swaps >= 3

-----------------------------------------------------------------------------
(* Claims about the arguments of get_best_quote and the store that init() builds *)

\* C27: get_best_quote returns an error for an amount below the configured minimum swap
\* amount, whatever pools the venues hold for the pair
C27_BelowMinimumRefused ==
    (/\ engine_result.op = "get_best_quote"
     /\ engine_result.outcome \notin {"pending", "abandoned"}
     /\ engine_result.key[3] < min_amount_usdc) =>
        engine_result.outcome = "Err"

\* C28: add_swap never panics and never lets the log exceed its capacity, for every
\* capacity a store is constructed with, capacity 0 included
C28_AddSwapNeverPanics ==
    /\ ~(result.op = "add_swap" /\ result.outcome = "panic")
    /\ Len(records) <= max_records

\* a step of add_swap
AddSwapStep ==
    /\ result'.op = "add_swap"
    /\ result' # result \/ records' # records \/ metrics' # metrics

\* C29: an add_swap made while the system clock is unavailable returns an error and leaves
\* the log and the metrics map unchanged, and the add_swap that follows it once the clock
\* works again succeeds: its record is appended and counted
C29_ClockFailureIsolated ==
    [][AddSwapStep =>
          /\ now < 0 => /\ result'.outcome = "Err"
                        /\ UNCHANGED <<records, metrics>>
          /\ (now >= 0 /\ result.op = "add_swap" /\ result.outcome = "Err") =>
                 /\ result'.outcome = "Ok"
                 /\ Len(records') >= 1
                 /\ records'[Len(records')].timestamp = now
                 /\ Len(inserted') = Len(inserted) + 1]_vars

-----------------------------------------------------------------------------
(* Claims about the direction of a swap and its price impact *)

\* the Raydium pool that serves the pair of the last call
PoolServing == raydium_get_pool(raydium_pools, engine_result.key[1], engine_result.key[2]).pool

\* what the constant-product formula gives for the last call when the reserve of the token
\* sold is reserve_in and the reserve of the token bought is reserve_out
PricedBySoldToken ==
    LET pool == PoolServing
        selling_a == engine_result.key[1] = pool.token_a
    IN  raydium_calculate_output(engine_result.key[3],
                                 IF selling_a THEN pool.reserve_a ELSE pool.reserve_b,
                                 IF selling_a THEN pool.reserve_b ELSE pool.reserve_a,
                                 pool.fees_bps)

\* C31: the constant-product adapter prices a swap with the reserve of the token sold as
\* reserve_in and the reserve of the token bought as reserve_out: a quote for token_b ->
\* token_a on a pool with reserves (rA, rB) uses reserve_in = rB and reserve_out = rA
C31_PricedBySoldToken ==
    (MissReturned /\ RaydiumAnswer.ok) =>
        /\ RaydiumAnswer.quote.amount_out = PricedBySoldToken.amount_out
        /\ RaydiumAnswer.quote.price_impact_bps = PricedBySoldToken.price_impact

\* C32: for fixed reserves the price_impact_bps of the constant-product adapter is
\* floor(10000 * amount_in / reserve_in), is the same for every fee and does not decrease as
\* amount_in grows
C32_PriceImpactIsFloor ==
    (Calculated /\ engine_result.reserve_in > 0) =>
        /\ engine_result.out.price_impact =
               MulDiv(engine_result.amount_in, 10000, engine_result.reserve_in)
        /\ \A fees_bps \in CalcFees :
               raydium_calculate_output(engine_result.amount_in, engine_result.reserve_in,
                                        engine_result.reserve_out, fees_bps).price_impact
                   = engine_result.out.price_impact
        /\ \A amount \in CalcAmounts :
               amount < engine_result.amount_in =>
                   raydium_calculate_output(amount, engine_result.reserve_in,
                                            engine_result.reserve_out,
                                            engine_result.fees_bps).price_impact
                       <= engine_result.out.price_impact

-----------------------------------------------------------------------------
(* Claims about the metrics map as a whole *)

\* the key was not the subject of an add_swap in this step
NotRecorded(key) ==
    (IF key \in DOMAIN observed' THEN observed'[key] ELSE NoCalls)
        = (IF key \in DOMAIN observed THEN observed[key] ELSE NoCalls)

\* C33: add_swap for a route key creates or updates the RouteMetrics entry of that key
\* only: the entry of every other key, the reversed pair and the same pair on the other
\* venue included, is neither created nor changed, and no entry is ever deleted
C33_OnlyOwnEntryTouched ==
    [][\A key \in QueryKeys :
           /\ key \in DOMAIN metrics => key \in DOMAIN metrics'
           /\ NotRecorded(key) =>
                  /\ key \in DOMAIN metrics' => key \in DOMAIN metrics
                  /\ key \in DOMAIN metrics => metrics'[key] = metrics[key]]_vars

\* C33 happens: a pair, the reversed pair and the pair on the other venue each have an
\* entry, and the entry of the pair has counted more swaps than the two others
C33_ThreeKeysApart ==
    /\ DOMAIN metrics = RouteKeys
    /\ metrics[<<USDC, SOL, "Raydium">>].total_swaps = 3
    /\ metrics[<<SOL, USDC, "Raydium">>].total_swaps = 1
    /\ metrics[<<USDC, SOL, "Orca">>].total_swaps = 1

\* the positions of the log that hold a record of the key
LoggedAt(key) == {i \in 1..Len(records) : KeyOf(records[i]) = key}

\* the sum of total_swaps over the keys
RECURSIVE TotalSwaps(_, _)
TotalSwaps(m, keys) ==
    IF keys = {} THEN 0
    ELSE LET key == CHOOSE k \in keys : TRUE
         IN  m[key].total_swaps + TotalSwaps(m, keys \ {key})

\* C34: in a store of capacity >= 1 the log and the metrics map are consistent: every record
\* of the log has a metrics entry for its key, total_swaps of a key is at least the number
\* of records of the key in the log and successful_swaps at least the number of those
\* marked successful, and the total_swaps of all keys add up to the number of add_swap
\* calls that returned Ok
C34_LogAndMetricsConsistent ==
    max_records >= 1 =>
        /\ \A i \in 1..Len(records) : KeyOf(records[i]) \in DOMAIN metrics
        /\ \A key \in DOMAIN metrics :
               /\ metrics[key].total_swaps >= Cardinality(LoggedAt(key))
               /\ metrics[key].successful_swaps
                      >= Cardinality({i \in LoggedAt(key) : records[i].success})
        /\ TotalSwaps(metrics, DOMAIN metrics) = Len(inserted)

\* C34 happens: a store of capacity 1 has taken three swaps on two keys, one of them failed,
\* and holds the last record only
C34_CountsOutliveLog ==
    /\ max_records = 1
    /\ Len(inserted) = 3
    /\ Len(records) = 1
    /\ Cardinality(DOMAIN metrics) = 2
    /\ \E key \in DOMAIN metrics : metrics[key].successful_swaps < metrics[key].total_swaps

\* C35: get_recent_swaps returns normally in every reachable state of the store and for
\* every reading of the wall clock: the age  now - timestamp  underflows for no record,
\* also when the clock reads earlier than a stored timestamp or is unavailable and now
\* falls back to 0
C35_AgeNeverUnderflows ==
    result.op = "get_recent_swaps" =>
        /\ ~result.panic
        /\ ~Underflows(records, result.reading)

-----------------------------------------------------------------------------
(* Claims about Metrics *)

\* the record_success calls made so far, in call order
Successes == SelectSeq(recorded, LAMBDA c : c.success)

\* the sum of the execution times passed in the calls
RECURSIVE TimeSpent(_)
TimeSpent(calls) ==
    IF calls = <<>> THEN 0 ELSE Head(calls).execution_time + TimeSpent(Tail(calls))

\* C36: after any non-empty sequence of record_success and record_failure calls,
\* successful_swaps <= total_swaps, total_swaps is the number of calls, successful_swaps the
\* number of record_success calls, and success_rate is successful_swaps / total_swaps
C36_CountsAndRate ==
    recorded # <<>> =>
        /\ stats.successful_swaps <= stats.total_swaps
        /\ stats.total_swaps = Len(recorded)
        /\ stats.successful_swaps = Len(Successes)
        /\ stats.success_rate = Ratio(stats.successful_swaps, stats.total_swaps)

\* C36 happens: a success, then two failures, leave the rate at one third
C36_RateAfterFailures ==
    /\ Len(recorded) = 3
    /\ recorded[1].success /\ ~recorded[2].success /\ ~recorded[3].success
    /\ stats.success_rate = <<1, 3>>

\* C37: after any sequence of record_success and record_failure calls with at least one
\* success, avg_execution_time is the arithmetic mean of the execution times passed to
\* record_success, however the record_failure calls are interleaved
C37_AverageOverSuccesses ==
    Successes # <<>> =>
        stats.avg_execution_time
            = F64DivInt(F64AddInt(F64Zero, TimeSpent(Successes)), Len(Successes))

====
